---- MODULE Spec2Model ----
(***************************************************************************)
(* A model of simulation/transit_time_estimator.py: the batched network    *)
(* state RouteGenBatchState and the operations that mutate it.             *)
(*                                                                         *)
(* A batch holds batch_size scenarios, each over the nodes                 *)
(* 0 .. max_n_nodes-1.  A matrix is a function [Nodes -> [Nodes -> v]], a  *)
(* padded route is a tuple of width max_n_nodes whose tail is -1, and a    *)
(* per-scenario field is a function over the batch indices.  The torch     *)
(* value float('inf') is the number Inf, larger than every finite time the *)
(* model can build, and sums saturate at it.                               *)
(***************************************************************************)
EXTENDS Integers, Sequences, FiniteSets, TLC

\* ------------------------------------------------------------------------
\* Module-level constants of the program
\* ------------------------------------------------------------------------
MEAN_STOP_TIME_S == 0
AVG_TRANSFER_WAIT_TIME_S == 300
Inf == 1000000

\* ------------------------------------------------------------------------
\* Bounds of the model
\* ------------------------------------------------------------------------
\* the number of calls made on one state
MaxCalls == 2

\* ------------------------------------------------------------------------
\* Scalars with infinity
\* ------------------------------------------------------------------------
Plus(a, b) == IF a >= Inf \/ b >= Inf THEN Inf ELSE a + b
Minimum(a, b) == IF a <= b THEN a ELSE b
\* a function with its values computed once, as a tensor holds them
Force(f) == IF f = f THEN f ELSE f
SetMin(S) == IF S = {} THEN Inf ELSE CHOOSE x \in S : \A y \in S : x <= y
SetMax(S) == CHOOSE x \in S : \A y \in S : y <= x

\* ------------------------------------------------------------------------
\* The scenario graphs of the batch (graph_data)
\* ------------------------------------------------------------------------
Mat(rows) == Force([i \in 0..(Len(rows) - 1) |-> [j \in 0..(Len(rows) - 1) |-> rows[i + 1][j + 1]]])

\* three stops on a line: no direct street between the two ends
LineDriveTimes == Mat(<< <<0, 5, Inf>>, <<5, 0, 5>>, <<Inf, 5, 0>> >>)
\* three stops, every pair joined, with direction-dependent drive times; the
\* direct street from 0 to 2 is slower than the way through 1
TriangleDriveTimes == Mat(<< <<0, 4, 9>>, <<6, 0, 4>>, <<7, 6, 0>> >>)
\* one trip wanted between the two ends of the line
LineDemand == Mat(<< <<0, 0, 1>>, <<0, 0, 0>>, <<0, 0, 0>> >>)
NoDemand == Mat(<< <<0, 0, 0>>, <<0, 0, 0>>, <<0, 0, 0>> >>)

graph_data == << [drive_times |-> LineDriveTimes, demand |-> LineDemand, num_nodes |-> 3],
                 [drive_times |-> TriangleDriveTimes, demand |-> NoDemand, num_nodes |-> 3] >>

batch_size == Len(graph_data)
batch_indices == 0..(batch_size - 1)
max_n_nodes == SetMax({graph_data[k].num_nodes : k \in 1..batch_size})
Nodes == 0..(max_n_nodes - 1)
drive_times == Force([b \in batch_indices |-> graph_data[b + 1].drive_times])
demand == Force([b \in batch_indices |-> graph_data[b + 1].demand])

\* ------------------------------------------------------------------------
\* Padded routes
\* ------------------------------------------------------------------------
\* the stops of a padded route: (route > -1), in order
Stops(route) == SelectSeq(route, LAMBDA s : s > -1)
NStops(route) == Len(Stops(route))
\* torch.nn.functional.pad(seq, (0, n), value=-1) up to the given width
Pad(seq, width) == Force([p \in 1..width |-> IF p <= Len(seq) THEN seq[p] ELSE -1])
EmptyRoute == Pad(<<>>, max_n_nodes)
\* Python's negative indexing of a dimension of size n
PyIndex(i, n) == IF i < 0 THEN n + i ELSE i

\* ------------------------------------------------------------------------
\* torch_utils: the graph-algorithm library
\* ------------------------------------------------------------------------
\* one pass of the solver for the intermediate node k; a pair is rerouted
\* through k only when that is strictly shorter
FWStep(d, n, k) ==
    [dists |-> Force([i \in Nodes |-> [j \in Nodes |->
                  IF Plus(d[i][k], d[k][j]) < d[i][j]
                  THEN Plus(d[i][k], d[k][j]) ELSE d[i][j]]]),
     nexts |-> Force([i \in Nodes |-> [j \in Nodes |->
                  IF Plus(d[i][k], d[k][j]) < d[i][j] THEN n[i][k] ELSE n[i][j]]])]

RECURSIVE FWLoop(_, _)
FWLoop(dn, k) ==
    IF k >= max_n_nodes THEN dn ELSE FWLoop(FWStep(dn.dists, dn.nexts, k), k + 1)

\* all-pairs shortest paths: the next-hop matrix (-1 where there is no path)
\* and the distance matrix
floyd_warshall(edge_costs) ==
    FWLoop([dists |-> Force([i \in Nodes |-> [j \in Nodes |->
                          IF i = j THEN 0 ELSE edge_costs[i][j]]]),
            nexts |-> Force([i \in Nodes |-> [j \in Nodes |->
                          IF i = j THEN i
                          ELSE IF edge_costs[i][j] < Inf THEN j ELSE -1]])], 0)

RECURSIVE PathFrom(_, _, _, _)
PathFrom(next_hops, i, j, fuel) ==
    IF next_hops[i][j] = -1 \/ fuel = 0 THEN <<>>
    ELSE IF i = j THEN <<i>>
    ELSE <<i>> \o PathFrom(next_hops, next_hops[i][j], j, fuel - 1)

\* the stop sequence of every pair's path, and its length (0 without a path)
reconstruct_all_paths(next_hops) ==
    [seqs |-> Force([i \in Nodes |-> [j \in Nodes |->
                 PathFrom(next_hops, i, j, max_n_nodes)]]),
     lens |-> Force([i \in Nodes |-> [j \in Nodes |->
                 Len(PathFrom(next_hops, i, j, max_n_nodes))]])]

\* the time of each leg of a padded route; a leg into padding takes 0
get_route_leg_times(route, dtm, stop_time) ==
    Force([p \in 1..(Len(route) - 1) |->
        IF route[p] > -1 /\ route[p + 1] > -1
        THEN Plus(dtm[route[p]][route[p + 1]], stop_time) ELSE 0])

RECURSIVE SumSeq(_)
SumSeq(s) == IF s = <<>> THEN 0 ELSE Plus(Head(s), SumSeq(Tail(s)))

Transpose(mat) == Force([i \in Nodes |-> [j \in Nodes |-> mat[j][i]]])
Reverse(seq) == Force([p \in 1..Len(seq) |-> seq[Len(seq) + 1 - p]])

\* the direct rides along a sequence of stops: <<from, to, time>> for every
\* stop and every later stop, the time being the sum of the legs between them
RidesAlong(stops, legs) ==
    {<<stops[pq[1]], stops[pq[2]], SumSeq(SubSeq(legs, pq[1], pq[2] - 1))>> :
        pq \in {x \in (1..Len(stops)) \X (1..Len(stops)) : x[1] < x[2]}}

\* the rides one route offers; a symmetric route is also ridden backwards
RouteRides(route, dtm, stop_time, symmetric) ==
    RidesAlong(Stops(route), get_route_leg_times(Stops(route), dtm, stop_time))
    \cup (IF symmetric
          THEN RidesAlong(Reverse(Stops(route)),
                          get_route_leg_times(Reverse(Stops(route)), dtm, stop_time))
          ELSE {})

\* the best time among the rides of every pair, Inf for a pair without a ride
BestRides(rides) ==
    Force([i \in Nodes |-> [j \in Nodes |->
        SetMin({ride[3] : ride \in {x \in rides : x[1] = i /\ x[2] = j}})]])

\* the best direct-ride time between any two stops of one of the routes
get_route_edge_matrix(routes, dtm, stop_time, symmetric) ==
    BestRides(UNION {RouteRides(routes[r], dtm, stop_time, symmetric) :
                        r \in 1..Len(routes)})

\* positions froms <= p < tos of a row of the given width (0-based)
get_variable_slice_mask(width, froms, tos) ==
    {p \in 0..(width - 1) : froms <= p /\ p < tos}

\* the street graph's next-hop matrix, kept with the scenario data
nexts == Force([b \in batch_indices |-> floyd_warshall(drive_times[b]).nexts])

\* ------------------------------------------------------------------------
\* The state of a RouteGenBatchState
\* ------------------------------------------------------------------------
VARIABLES
    symmetric_routes,             \* cost_obj.symmetric_routes, one flag for the batch
    n_routes_to_plan,             \* [b]: the number of routes to plan
    base_valid_terms_mat,         \* [b]: the terminal-validity mask given at construction
    finished_routes,              \* [b]: the list of finished routes, each its stops
    current_routes,               \* [b]: the padded route in progress
    extra_total_route_time,       \* [b]: extra_data.total_route_time
    current_route_time,           \* [b]: the running time of the route in progress
    route_mat,                    \* [b]: best direct-ride time of every pair
    directly_connected,           \* [b]: pairs some route joins without transfer
    valid_terms_mat,              \* [b]: pairs allowed as a new route's terminals
    transit_times,                \* [b]: shortest times, transfers included
    route_nexts,                  \* [b]: next hops of the shortest paths
    n_transfers,                  \* [b]: transfers on the shortest paths
    has_path,                     \* [b]: pairs with a path over the routes
    op,                           \* the last call made on the state
    result,                       \* how it ended: "ok" or the error raised
    n_calls,                      \* the number of calls made so far
    other,                        \* the fields of a second state object, taken from this one
    link,                         \* the operation that gave the second object, or "none"
    same,                         \* the second object is this very object
    shared,                       \* the scenarios whose list of finished routes is one
                                  \* list object held by both states
    target                        \* the object the last call was made on

config_vars == <<symmetric_routes, n_routes_to_plan, base_valid_terms_mat>>
state_vars == <<finished_routes, current_routes, extra_total_route_time,
                current_route_time, route_mat, directly_connected, valid_terms_mat,
                transit_times, route_nexts, n_transfers, has_path>>
copy_vars == <<other, link, same, shared, target>>
vars == <<config_vars, state_vars, op, result, n_calls, copy_vars>>

\* the mutable fields as one value, so that an operation is a function of it
State == [finished_routes |-> finished_routes,
          current_routes |-> current_routes,
          extra_total_route_time |-> extra_total_route_time,
          current_route_time |-> current_route_time,
          route_mat |-> route_mat,
          directly_connected |-> directly_connected,
          valid_terms_mat |-> valid_terms_mat,
          transit_times |-> transit_times,
          route_nexts |-> route_nexts,
          n_transfers |-> n_transfers,
          has_path |-> has_path]

\* the values __init__ and _clear_routes_helper give the route-derived fields
Eye == Force([i \in Nodes |-> [j \in Nodes |-> i = j]])
InitTransitTimes == Force([i \in Nodes |-> [j \in Nodes |-> IF i = j THEN 0 ELSE Inf]])
Zeros == Force([i \in Nodes |-> [j \in Nodes |-> 0]])
\* valid_terms_mat=None: every pair of different nodes
DefaultValidTerms == Force([i \in Nodes |-> [j \in Nodes |-> i # j]])

mean_stop_time == MEAN_STOP_TIME_S
transfer_time_s == AVG_TRANSFER_WAIT_TIME_S

\* ------------------------------------------------------------------------
\* Read-only views
\* ------------------------------------------------------------------------
n_finished_routes(S) == Force([b \in batch_indices |-> Len(S.finished_routes[b])])
n_routes_left_to_plan(S) ==
    Force([b \in batch_indices |-> n_routes_to_plan[b] - n_finished_routes(S)[b]])
is_done(S) == Force([b \in batch_indices |-> n_routes_left_to_plan(S)[b] = 0])
current_route_n_stops(S) == Force([b \in batch_indices |-> NStops(S.current_routes[b])])
has_current_route(S) == Force([b \in batch_indices |-> current_route_n_stops(S)[b] > 0])
\* the time of the finished routes alone
finished_route_time(S) == Force([b \in batch_indices |-> S.extra_total_route_time[b]])
\* time of finished routes plus time of in-progress routes
total_route_time(S) ==
    Force([b \in batch_indices |-> Plus(S.extra_total_route_time[b], S.current_route_time[b])])

\* the street graph's shortest-path sequences, computed once and kept
get_shortest_path_sequences ==
    Force([b \in batch_indices |-> reconstruct_all_paths(nexts[b]).seqs])

\* the running time of each scenario's routes, return legs included when the
\* routes are symmetric
RoutesTime(routes, dtm) ==
    SumSeq(Force([r \in 1..Len(routes) |->
               SumSeq(get_route_leg_times(routes[r], dtm, mean_stop_time))]))
get_total_route_time(batch_routes) ==
    Force([b \in batch_indices |->
        IF symmetric_routes
        THEN Plus(RoutesTime(batch_routes[b], drive_times[b]),
                  RoutesTime(batch_routes[b], Transpose(drive_times[b])))
        ELSE RoutesTime(batch_routes[b], drive_times[b])])

\* pairs joined by at most n + 1 direct rides
RECURSIVE Connected(_, _, _)
Connected(connected, dircon, n) ==
    IF n = 0 THEN connected
    ELSE Connected(Force([i \in Nodes |-> [j \in Nodes |->
                       \E k \in Nodes : connected[i][k] /\ dircon[k][j]]]), dircon, n - 1)
nodes_are_connected(dircon, n) == Connected(dircon, dircon, n)

\* ------------------------------------------------------------------------
\* _update_on_routes: the route-derivation refresh
\* ------------------------------------------------------------------------
\* a merge that keeps only the matrix of the routes just added
OverwriteRouteMat(old_mat, new_mat) == new_mat
\* torch.minimum(self.route_mat, new_route_mat)
MergeRouteMat(old_mat, new_mat) ==
    Force([i \in Nodes |-> [j \in Nodes |-> Minimum(old_mat[i][j], new_mat[i][j])]])

\* directly_connected[bi, route_froms, route_tos] = True where route_mat < inf
MarkConnected(dircon, rmat) ==
    Force([i \in Nodes |-> [j \in Nodes |-> dircon[i][j] \/ rmat[i][j] < Inf]])

\* only_routes_with_demand_are_valid: admit the pairs up- or downstream of demand
AdmitDemandAdjacent(vtm, dem, connected_T) ==
    Force([i \in Nodes |-> [j \in Nodes |->
        \/ vtm[i][j]
        \/ \E k \in Nodes : dem[i][k] > 0 /\ connected_T[k][j]
        \/ \E k \in Nodes : connected_T[i][k] /\ dem[k][j] > 0]])

\* invalid_directly_connected: valid_terms_mat[directly_connected] = False
ForbidConnected(vtm, dircon) ==
    Force([i \in Nodes |-> [j \in Nodes |-> vtm[i][j] /\ ~dircon[i][j]]])

\* valid_terms_mat & valid_terms_mat.transpose(1, 2)
Symmetrize(vtm) == Force([i \in Nodes |-> [j \in Nodes |-> vtm[i][j] /\ vtm[j][i]]])

WithSymmetry(vtm) == IF symmetric_routes THEN Symmetrize(vtm) ELSE vtm
WithInvalid(vtm, dircon, invalid_directly_connected) ==
    IF invalid_directly_connected THEN ForbidConnected(vtm, dircon) ELSE vtm
WithDemand(vtm, dircon, dem, only_routes_with_demand_are_valid) ==
    IF only_routes_with_demand_are_valid
    THEN AdmitDemandAdjacent(vtm, dem, Transpose(nodes_are_connected(dircon, 2)))
    ELSE vtm

\* valid_terms_mat after the two optional policies and the symmetry step
UpdateValidTerms(vtm, dircon, dem, only_routes_with_demand_are_valid, invalid_directly_connected) ==
    WithSymmetry(WithInvalid(WithDemand(vtm, dircon, dem,
                                        only_routes_with_demand_are_valid),
                             dircon, invalid_directly_connected))

\* a reachability flag that does not look at the time
HasPathAlways(dists) == Force([i \in Nodes |-> [j \in Nodes |-> dists[i][j] <= Inf]])
\* has_path = transit_times < float('inf')
HasPath(dists) == Force([i \in Nodes |-> [j \in Nodes |-> dists[i][j] < Inf]])

\* number of transfers is number of nodes except start and end, and 0 where
\* there is no path
NTransfers(has, path_lens) ==
    Force([i \in Nodes |-> [j \in Nodes |->
        IF ~has[i][j] THEN 0
        ELSE IF path_lens[i][j] - 2 < 0 THEN 0 ELSE path_lens[i][j] - 2]])

\* the ride times alone, with no penalty for the transfers
WithoutTransferPenalties(dists, ntr) == dists
\* transit_times += n_transfers * transfer_time_s
WithTransferPenalties(dists, ntr) ==
    Force([i \in Nodes |-> [j \in Nodes |->
        Plus(dists[i][j], ntr[i][j] * transfer_time_s)]])

PathsOver(fw, ntr) ==
    [route_nexts |-> fw.nexts,
     has_path |-> HasPath(fw.dists),
     n_transfers |-> ntr,
     transit_times |-> WithTransferPenalties(fw.dists, ntr)]
PathsFrom(fw) ==
    PathsOver(fw, NTransfers(HasPath(fw.dists), reconstruct_all_paths(fw.nexts).lens))
\* route_nexts, transit_times, has_path and n_transfers from a route matrix
ShortestPathsOver(rmat) == PathsFrom(floyd_warshall(rmat))

\* the fields derived from the merged route matrices
Derive(S, rmat, dircon, sp, only_routes_with_demand_are_valid, invalid_directly_connected) ==
    [S EXCEPT
       !.route_mat = rmat,
       !.directly_connected = dircon,
       !.valid_terms_mat = Force([b \in batch_indices |->
           UpdateValidTerms(S.valid_terms_mat[b], dircon[b], demand[b],
                            only_routes_with_demand_are_valid,
                            invalid_directly_connected)]),
       !.route_nexts = Force([b \in batch_indices |-> sp[b].route_nexts]),
       !.transit_times = Force([b \in batch_indices |-> sp[b].transit_times]),
       !.has_path = Force([b \in batch_indices |-> sp[b].has_path]),
       !.n_transfers = Force([b \in batch_indices |-> sp[b].n_transfers])]

Merged(S, rmat, only_routes_with_demand_are_valid, invalid_directly_connected) ==
    Derive(S, rmat,
           Force([b \in batch_indices |-> MarkConnected(S.directly_connected[b], rmat[b])]),
           Force([b \in batch_indices |-> ShortestPathsOver(rmat[b])]),
           only_routes_with_demand_are_valid, invalid_directly_connected)

_update_on_routes(S, update_routes, only_routes_with_demand_are_valid, invalid_directly_connected) ==
    Merged(S,
           Force([b \in batch_indices |->
               MergeRouteMat(S.route_mat[b],
                             get_route_edge_matrix(update_routes[b], drive_times[b],
                                                   mean_stop_time, symmetric_routes))]),
           only_routes_with_demand_are_valid, invalid_directly_connected)

\* ------------------------------------------------------------------------
\* _clear_routes_helper, clear_routes, reset_dones
\* ------------------------------------------------------------------------
\* field[batch_index] = value
Reset(field, batch_index, value) ==
    Force([b \in batch_indices |-> IF b \in batch_index THEN value ELSE field[b]])

_clear_routes_helper(S, batch_index) ==
    [finished_routes |-> Reset(S.finished_routes, batch_index, <<>>),
     valid_terms_mat |-> Force([b \in batch_indices |->
         IF b \in batch_index THEN base_valid_terms_mat[b] ELSE S.valid_terms_mat[b]]),
     extra_total_route_time |-> Reset(S.extra_total_route_time, batch_index, 0),
     directly_connected |-> Reset(S.directly_connected, batch_index, Eye),
     route_mat |-> Reset(S.route_mat, batch_index, InitTransitTimes),
     transit_times |-> Reset(S.transit_times, batch_index, InitTransitTimes),
     has_path |-> Reset(S.has_path, batch_index, Eye),
     current_routes |-> Reset(S.current_routes, batch_index, EmptyRoute),
     current_route_time |-> Reset(S.current_route_time, batch_index, 0),
     route_nexts |-> Reset(S.route_nexts, batch_index, Zeros),
     n_transfers |-> Reset(S.n_transfers, batch_index, Zeros)]

\* torch.where(self.is_done())[0]
DoneIndex(S) == {b \in batch_indices : is_done(S)[b]}

\* a clearing that reaches only the scenarios whose planning is complete
clear_done_routes(S) == _clear_routes_helper(S, DoneIndex(S))
clear_routes(S) == _clear_routes_helper(S, batch_indices)

reset_dones(S) ==
    IF DoneIndex(S) # {} THEN _clear_routes_helper(S, DoneIndex(S)) ELSE S

\* ------------------------------------------------------------------------
\* add_new_routes, replace_routes
\* ------------------------------------------------------------------------
\* route[:length] of every kept row
CutToLength(kept) ==
    Force([r \in 1..Len(kept) |-> SubSeq(kept[r], 1, NStops(kept[r]))])
\* a filter that keeps every supplied route that has a stop
StartedNewRoutes(new_routes) ==
    CutToLength(SelectSeq(new_routes, LAMBDA route : ~(NStops(route) < 1)))
\* the supplied routes of at least 2 stops, in the supplied order, each cut
\* to its stop count
ValidNewRoutes(new_routes) ==
    CutToLength(SelectSeq(new_routes, LAMBDA route : ~(NStops(route) < 2)))

\* the finished sets and the total route time after the rows are appended
Appended(S, batch_new_routes, total_new_time) ==
    [S EXCEPT
       !.finished_routes = Force([b \in batch_indices |->
           S.finished_routes[b] \o ValidNewRoutes(batch_new_routes[b])]),
       !.extra_total_route_time = Force([b \in batch_indices |->
           Plus(S.extra_total_route_time[b], total_new_time[b])])]

add_new_routes(S, batch_new_routes, only_routes_with_demand_are_valid, invalid_directly_connected) ==
    _update_on_routes(Appended(S, batch_new_routes,
                               get_total_route_time(batch_new_routes)),
                      batch_new_routes, only_routes_with_demand_are_valid,
                      invalid_directly_connected)

\* the new routes are added to the routes the state has, without clearing
extend_routes(S, batch_new_routes, only_routes_with_demand_are_valid, invalid_directly_connected) ==
    add_new_routes(S, batch_new_routes, only_routes_with_demand_are_valid,
                   invalid_directly_connected)
replace_routes(S, batch_new_routes, only_routes_with_demand_are_valid, invalid_directly_connected) ==
    add_new_routes(_clear_routes_helper(S, batch_indices), batch_new_routes,
                   only_routes_with_demand_are_valid, invalid_directly_connected)

\* ------------------------------------------------------------------------
\* shortest_path_action
\* ------------------------------------------------------------------------
\* a boolean mask as a torch factor
Bit(flag) == IF flag THEN 1 ELSE 0
CountStops(part) == Cardinality({p \in 1..Len(part) : part[p] > -1})

\* a validity test that accepts every action
any_action(starting, ends_at_cur_start, starts_at_cur_end, routes_are_done) == TRUE
\* starting | ends_at_cur_start | starts_at_cur_end | routes_are_done
valid_action(starting, ends_at_cur_start, starts_at_cur_end, routes_are_done) ==
    starting \/ ends_at_cur_start \/ starts_at_cur_end \/ routes_are_done

\* whether the finished in-progress route joins the finished set
RouteIsKept(route) == Len(route) > 0

\* chose_prev = extending & ends_at_cur_start
chose_prev(starting, routes_are_done, ends_at_cur_start) ==
    (~starting /\ ~routes_are_done) /\ ends_at_cur_start
\* chose_next = extending & ~ends_at_cur_start
chose_next(starting, routes_are_done, ends_at_cur_start) ==
    (~starting /\ ~routes_are_done) /\ ~ends_at_cur_start

Masks(routes_are_done, starting, ends_at_cur_start, starts_at_cur_end) ==
    [routes_are_done |-> routes_are_done,
     valid |-> valid_action(starting, ends_at_cur_start, starts_at_cur_end,
                            routes_are_done),
     first_factor |->
         Bit(starting \/ chose_prev(starting, routes_are_done, ends_at_cur_start)),
     cur_first_factor |->
         Bit(chose_next(starting, routes_are_done, ends_at_cur_start) \/ routes_are_done),
     chose_next |-> Bit(chose_next(starting, routes_are_done, ends_at_cur_start)),
     chose_prev |-> Bit(chose_prev(starting, routes_are_done, ends_at_cur_start))]

\* the masks of one scenario's action against its in-progress route
ActionParts(cur, path_index) ==
    Masks(path_index[1] = -1,
          cur[1] = -1 /\ ~(path_index[1] = -1),
          path_index[2] = cur[1],
          path_index[1] = cur[PyIndex(NStops(cur) - 1, max_n_nodes) + 1])

first_parts(cur, new_part, m) ==
    Force([p \in 1..max_n_nodes |->
        new_part[p] * m.first_factor + cur[p] * m.cur_first_factor])
\* cut off the first node of the second parts, since they overlap
second_parts(cur, new_part, m) ==
    Tail(Force([p \in 1..max_n_nodes |->
        new_part[p] * m.chose_next + cur[p] * m.chose_prev
        + (-1) * Bit(m.chose_next = 0 /\ m.chose_prev = 0)]))

\* updated_routes[scnd_part_mask] = second_parts[scnd_part_len_mask]: the
\* assignment needs as many places as it has values
Insert(first, second, first_part_lens, scnd_part_mask, scnd_part_len_mask) ==
    [fits |-> Cardinality(scnd_part_mask) = Cardinality(scnd_part_len_mask),
     route |-> Force([p \in 1..max_n_nodes |->
                  IF (p - 1) \in scnd_part_mask
                  THEN second[p - first_part_lens] ELSE first[p]])]

Combine(first, second, first_part_lens, scnd_part_lens) ==
    Insert(first, second, first_part_lens,
           get_variable_slice_mask(max_n_nodes, first_part_lens,
                                   first_part_lens + scnd_part_lens),
           get_variable_slice_mask(max_n_nodes - 1, 0, scnd_part_lens))

Joined(first, second) == Combine(first, second, CountStops(first), CountStops(second))

\* updated_routes of one scenario before the done scenarios are cleared, and
\* whether the second part fits the slice left for it
ConcatenateParts(cur, new_part, m) ==
    Joined(first_parts(cur, new_part, m), second_parts(cur, new_part, m))

\* the path chosen by each scenario, padded to the width of current_routes
new_parts(path_indices) ==
    Force([b \in batch_indices |->
        Pad(get_shortest_path_sequences[b][PyIndex(path_indices[b][1], max_n_nodes)]
                                          [PyIndex(path_indices[b][2], max_n_nodes)],
            max_n_nodes)])

\* the state after the loop over the scenarios and the refresh
Finish(S, kept, route, updated_routes) ==
    _update_on_routes(
        [S EXCEPT
           !.finished_routes = Force([b \in batch_indices |->
               IF kept[b] THEN Append(S.finished_routes[b], route[b])
               ELSE S.finished_routes[b]]),
           !.extra_total_route_time = Force([b \in batch_indices |->
               IF kept[b]
               THEN Plus(S.extra_total_route_time[b], S.current_route_time[b])
               ELSE S.extra_total_route_time[b]]),
           !.current_routes = updated_routes,
           !.current_route_time = get_total_route_time(
               Force([b \in batch_indices |-> <<updated_routes[b]>>]))],
        Force([b \in batch_indices |-> <<updated_routes[b]>>]), FALSE, FALSE)

\* a finish that clears the route in progress only on the done sentinel, and
\* not for the scenarios already complete
FinishRoutesKeepingDone(S, m, cat, planning_already_done) ==
    Finish(S,
           Force([b \in batch_indices |->
               ~planning_already_done[b] /\ m[b].routes_are_done
               /\ RouteIsKept(Stops(cat[b].route))]),
           Force([b \in batch_indices |-> Stops(cat[b].route)]),
           Force([b \in batch_indices |->
               IF m[b].routes_are_done THEN EmptyRoute ELSE cat[b].route]))
\* planning_already_done is the completion flag when the call starts
FinishRoutes(S, m, cat, planning_already_done) ==
    Finish(S,
           Force([b \in batch_indices |->
               ~planning_already_done[b] /\ m[b].routes_are_done
               /\ RouteIsKept(Stops(cat[b].route))]),
           Force([b \in batch_indices |-> Stops(cat[b].route)]),
           Force([b \in batch_indices |->
               IF planning_already_done[b] \/ m[b].routes_are_done
               THEN EmptyRoute ELSE cat[b].route]))

Outcome(S, m, cat) ==
    IF ~(\A b \in batch_indices : m[b].valid)
    THEN [result |-> "invalid action!", state |-> S]
    ELSE IF ~(\A b \in batch_indices : cat[b].fits)
    THEN [result |-> "shape mismatch", state |-> S]
    ELSE IF ~(\A b \in batch_indices : \A p \in 1..max_n_nodes :
                 cat[b].route[p] < max_n_nodes)
    THEN [result |-> "AssertionError", state |-> S]
    ELSE [result |-> "ok", state |-> FinishRoutes(S, m, cat, is_done(S))]

Concatenated(S, path_indices, m) ==
    Outcome(S, m, Force([b \in batch_indices |->
        ConcatenateParts(S.current_routes[b], new_parts(path_indices)[b], m[b])]))

\* the outcome of the call: how it ends and the state it leaves
shortest_path_action(S, path_indices) ==
    Concatenated(S, path_indices,
        Force([b \in batch_indices |-> ActionParts(S.current_routes[b], path_indices[b])]))

\* ------------------------------------------------------------------------
\* The inputs the callers supply
\* ------------------------------------------------------------------------
\* the "route is finished" sentinel
DoneAction == <<-1, -1>>
\* a pair of node indices, or the sentinel, for every scenario; the scenarios
\* that do not finish their route choose the same pair (over different street
\* graphs, so their paths differ)
Actions == {DoneAction} \cup (Nodes \X Nodes)
PathIndices ==
    {pi \in [batch_indices -> Actions] :
        \A b \in batch_indices : \A c \in batch_indices :
            pi[b] = pi[c] \/ pi[b] = DoneAction \/ pi[c] = DoneAction}

R(stops) == Pad(stops, max_n_nodes)
\* calls of add_new_routes and replace_routes: two rows per scenario, some
\* rows shorter than a route, and the two policy flags
NewRoutesCalls ==
    { [routes |-> Force([b \in batch_indices |->
                     IF b = 0 THEN << R(<<0, 1, 2>>), R(<<>>) >>
                     ELSE << R(<<0, 1>>), R(<<1, 2>>) >>]),
       only_routes_with_demand_are_valid |-> FALSE,
       invalid_directly_connected |-> FALSE],
      [routes |-> Force([b \in batch_indices |->
                     IF b = 0 THEN << R(<<1>>), R(<<2, 1>>) >>
                     ELSE << R(<<>>), R(<<2, 0>>) >>]),
       only_routes_with_demand_are_valid |-> TRUE,
       invalid_directly_connected |-> FALSE],
      [routes |-> Force([b \in batch_indices |->
                     IF b = 0 THEN << R(<<0, 1>>), R(<<1, 2>>) >>
                     ELSE << R(<<2, 1, 0>>), R(<<0, 2>>) >>]),
       only_routes_with_demand_are_valid |-> FALSE,
       invalid_directly_connected |-> TRUE] }

\* a caller-supplied terminal-validity mask that is not symmetric
ForwardValidTerms == Force([i \in Nodes |-> [j \in Nodes |-> i < j]])
ValidTermsMasks == {DefaultValidTerms, ForwardValidTerms}
RoutesToPlan == {Force([b \in batch_indices |-> IF b = 0 THEN 1 ELSE 2]),
                 Force([b \in batch_indices |-> IF b = 0 THEN 2 ELSE 0])}

\* ------------------------------------------------------------------------
\* The state machine: construction, then any calls
\* ------------------------------------------------------------------------
Init ==
    /\ symmetric_routes \in BOOLEAN
    /\ n_routes_to_plan \in RoutesToPlan
    /\ \E mask \in ValidTermsMasks :
          /\ base_valid_terms_mat = Force([b \in batch_indices |-> mask])
          /\ valid_terms_mat = Force([b \in batch_indices |-> mask])
    /\ finished_routes = Force([b \in batch_indices |-> <<>>])
    /\ current_routes = Force([b \in batch_indices |-> EmptyRoute])
    /\ extra_total_route_time = Force([b \in batch_indices |-> 0])
    /\ current_route_time = Force([b \in batch_indices |-> 0])
    /\ route_mat = Force([b \in batch_indices |-> InitTransitTimes])
    /\ directly_connected = Force([b \in batch_indices |-> Eye])
    /\ transit_times = Force([b \in batch_indices |-> InitTransitTimes])
    /\ has_path = Force([b \in batch_indices |-> Eye])
    /\ route_nexts = Force([b \in batch_indices |-> Zeros])
    /\ n_transfers = Force([b \in batch_indices |-> Zeros])
    /\ op = "__init__"
    /\ result = "ok"
    /\ n_calls = 0
    /\ other = State
    /\ link = "none"
    /\ same = FALSE
    /\ shared = {}
    /\ target = "self"

\* the call's name and outcome are recorded and its state is stored
Store(name, res, S) ==
    /\ op' = name
    /\ result' = res
    /\ current_routes' = S.current_routes
    /\ finished_routes' = S.finished_routes
    /\ extra_total_route_time' = S.extra_total_route_time
    /\ current_route_time' = S.current_route_time
    /\ route_mat' = S.route_mat
    /\ directly_connected' = S.directly_connected
    /\ valid_terms_mat' = S.valid_terms_mat
    /\ transit_times' = S.transit_times
    /\ route_nexts' = S.route_nexts
    /\ n_transfers' = S.n_transfers
    /\ has_path' = S.has_path
    /\ UNCHANGED config_vars

\* a call on the state while no second object exists
Commit(name, res, S) == Store(name, res, S) /\ UNCHANGED copy_vars

CommitOutcome(name, out) == Commit(name, out.result, out.state)

ShortestPathAction(path_indices) ==
    /\ n_calls < MaxCalls
    /\ n_calls' = n_calls + 1
    /\ CommitOutcome("shortest_path_action", shortest_path_action(State, path_indices))

AddNewRoutes(call) ==
    /\ n_calls < MaxCalls
    /\ n_calls' = n_calls + 1
    /\ Commit("add_new_routes", "ok",
              add_new_routes(State, call.routes, call.only_routes_with_demand_are_valid,
                             call.invalid_directly_connected))

ReplaceRoutes(call) ==
    /\ n_calls < MaxCalls
    /\ n_calls' = n_calls + 1
    /\ Commit("replace_routes", "ok",
              replace_routes(State, call.routes, call.only_routes_with_demand_are_valid,
                             call.invalid_directly_connected))

ClearRoutes ==
    /\ n_calls < MaxCalls
    /\ n_calls' = n_calls + 1
    /\ Commit("clear_routes", "ok", clear_routes(State))

ResetDones ==
    /\ n_calls < MaxCalls
    /\ n_calls' = n_calls + 1
    /\ Commit("reset_dones", "ok", reset_dones(State))

Next ==
    \/ \E path_indices \in PathIndices : ShortestPathAction(path_indices)
    \/ \E call \in NewRoutesCalls : AddNewRoutes(call)
    \/ \E call \in NewRoutesCalls : ReplaceRoutes(call)
    \/ ClearRoutes
    \/ ResetDones

Spec == Init /\ [][Next]_vars

\* planning only: the state is driven by shortest_path_action calls alone
PlanningNext == \E path_indices \in PathIndices : ShortestPathAction(path_indices)
PlanningSpec == Init /\ [][PlanningNext]_vars

\* ------------------------------------------------------------------------
\* Properties
\* ------------------------------------------------------------------------
\* the stops of a route are all different
NoLoop(route) == Cardinality({route[p] : p \in 1..Len(route)}) = Len(route)
IsSymmetric(mat) == \A i \in Nodes : \A j \in Nodes : mat[i][j] = mat[j][i]
\* the in-progress route of a scenario, without its padding
CurrentStops(S, b) == Stops(S.current_routes[b])
\* the street path a scenario's action chooses
ChosenPath(path_indices, b) == Stops(new_parts(path_indices)[b])
\* the fields of one scenario that a call on a complete scenario is to keep
PlannedFields(S, b) ==
    <<S.finished_routes[b], S.current_routes[b], total_route_time(S)[b],
      S.route_mat[b], S.directly_connected[b], S.valid_terms_mat[b],
      S.transit_times[b], S.n_transfers[b], S.has_path[b]>>
\* the fields of one scenario that a failed call is to keep
RouteFields(S, b) ==
    <<S.finished_routes[b], S.current_routes[b], total_route_time(S)[b],
      S.route_mat[b], S.directly_connected[b], S.transit_times[b],
      S.route_nexts[b], S.n_transfers[b], S.has_path[b]>>

\* C1: every call of shortest_path_action or add_new_routes leaves every
\* entry of route_mat less than or equal to its value before the call
C1_RouteMatMonotone ==
    [][op' \in {"shortest_path_action", "add_new_routes"} =>
          \A b \in batch_indices : \A i \in Nodes : \A j \in Nodes :
              route_mat'[b][i][j] <= route_mat[b][i][j]]_vars
\* a call has lowered an entry of route_mat: two different stops have a ride
C1_Witness ==
    /\ op \in {"shortest_path_action", "add_new_routes"}
    /\ result = "ok"
    /\ \E b \in batch_indices : \E i \in Nodes : \E j \in Nodes :
          i # j /\ route_mat[b][i][j] < Inf

\* C2: in every state reached from a fresh state by shortest_path_action
\* calls, no finished and no in-progress route holds the same stop twice
C2_NoDuplicateStops ==
    \A b \in batch_indices :
        /\ NoLoop(CurrentStops(State, b))
        /\ \A r \in 1..Len(finished_routes[b]) : NoLoop(finished_routes[b][r])

\* C3: in every reachable state has_path is true exactly where transit_times
\* is finite, and directly_connected implies has_path
C3_ReachabilityConsistent ==
    \A b \in batch_indices : \A i \in Nodes : \A j \in Nodes :
        /\ has_path[b][i][j] <=> (transit_times[b][i][j] < Inf)
        /\ directly_connected[b][i][j] => has_path[b][i][j]
\* a scenario has a pair joined only through a transfer and a pair not joined
C3_Witness ==
    \E b \in batch_indices :
        /\ \E i \in Nodes : \E j \in Nodes :
              has_path[b][i][j] /\ ~directly_connected[b][i][j]
              /\ n_transfers[b][i][j] > 0
        /\ \E i \in Nodes : \E j \in Nodes : ~has_path[b][i][j]

\* C4: with symmetric routes, valid_terms_mat is symmetric after every
\* mutating operation, whatever terminal-validity mask the caller supplied
C4_ValidTermsSymmetric ==
    (symmetric_routes /\ op # "__init__" /\ result = "ok") =>
        \A b \in batch_indices : IsSymmetric(valid_terms_mat[b])

\* C5: shortest_path_action leaves the finished routes, the in-progress
\* route, the total route time, route_mat, directly_connected,
\* valid_terms_mat, transit_times, n_transfers and has_path of a scenario
\* whose planning is already complete unchanged
C5_DoneScenarioUntouched ==
    [][(op' = "shortest_path_action" /\ result' = "ok") =>
          \A b \in batch_indices :
              is_done(State)[b] => PlannedFields(State', b) = PlannedFields(State, b)]_vars

\* C6: after clear_routes every scenario has no finished and no in-progress
\* route, total route time 0, the base terminal-validity mask, and the
\* route-derived matrices of a freshly constructed state
C6_ClearRestoresInitial ==
    op = "clear_routes" =>
        \A b \in batch_indices :
            /\ finished_routes[b] = <<>>
            /\ current_routes[b] = EmptyRoute
            /\ total_route_time(State)[b] = 0
            /\ valid_terms_mat[b] = base_valid_terms_mat[b]
            /\ route_mat[b] = InitTransitTimes
            /\ directly_connected[b] = Eye
            /\ transit_times[b] = InitTransitTimes
            /\ has_path[b] = Eye
            /\ route_nexts[b] = Zeros
            /\ n_transfers[b] = Zeros
\* clear_routes was called after an earlier call
C6_Witness == op = "clear_routes" /\ n_calls > 1

\* C7: is_done reports a scenario complete exactly when its number of
\* finished routes is at least n_routes_to_plan
C7_DoneIffEnoughRoutes ==
    \A b \in batch_indices :
        is_done(State)[b] <=> (n_finished_routes(State)[b] >= n_routes_to_plan[b])

\* C8: the done sentinel for a scenario that is not complete appends the
\* in-progress route to the finished routes exactly when it has at least 2
\* stops, and leaves the in-progress route empty in every case
C8_SentinelAppendsRoutesOfTwoStops ==
    \A path_indices \in PathIndices : \A b \in batch_indices :
        LET out == shortest_path_action(State, path_indices)
        IN (path_indices[b] = DoneAction /\ ~is_done(State)[b] /\ out.result = "ok") =>
              /\ out.state.finished_routes[b]
                   = IF Len(CurrentStops(State, b)) >= 2
                     THEN Append(finished_routes[b], CurrentStops(State, b))
                     ELSE finished_routes[b]
              /\ out.state.current_routes[b] = EmptyRoute

\* C9: a node pair (u,v) for a scenario that is not complete and has a route
\* in progress, with v not the route's first stop and u not its last stop,
\* fails with 'invalid action!' and changes no scenario's routes, route time
\* or route-derived matrices
C9_InvalidActionFails ==
    \A path_indices \in PathIndices :
        LET out == shortest_path_action(State, path_indices)
        IN (\E b \in batch_indices :
               /\ ~is_done(State)[b]
               /\ has_current_route(State)[b]
               /\ path_indices[b] # DoneAction
               /\ path_indices[b][2] # CurrentStops(State, b)[1]
               /\ path_indices[b][1]
                    # CurrentStops(State, b)[Len(CurrentStops(State, b))]) =>
              /\ out.result = "invalid action!"
              /\ \A c \in batch_indices : RouteFields(out.state, c) = RouteFields(State, c)
\* a call has failed with 'invalid action!' on a scenario that is not
\* complete and has a route in progress
C9_Witness ==
    /\ op = "shortest_path_action"
    /\ result = "invalid action!"
    /\ \E b \in batch_indices : ~is_done(State)[b] /\ has_current_route(State)[b]

\* C10: an accepted extension with path P from u to v gives P when no route
\* is in progress, P followed by the rest of the route when v is the route's
\* first stop, and the route followed by the rest of P when u is the route's
\* last stop
C10_Concatenation ==
    \A path_indices \in PathIndices : \A b \in batch_indices :
        LET out == shortest_path_action(State, path_indices)
            P == ChosenPath(path_indices, b)
            cur == CurrentStops(State, b)
        IN (path_indices[b] # DoneAction /\ ~is_done(State)[b] /\ out.result = "ok") =>
              /\ cur = <<>> => CurrentStops(out.state, b) = P
              /\ (cur # <<>> /\ path_indices[b][2] = cur[1]) =>
                    CurrentStops(out.state, b) = P \o Tail(cur)
              /\ (cur # <<>> /\ path_indices[b][1] = cur[Len(cur)]) =>
                    CurrentStops(out.state, b) = cur \o Tail(P)

\* the last call was a successful call that ends in the route-derivation refresh
Refreshed == op \in {"shortest_path_action", "add_new_routes", "replace_routes"} /\ result = "ok"

\* C11: the node sequence shortest_path_action inserts for a pair (u,v) is
\* the path from u to v reconstructed from the state's current route_nexts
C11_PathFromRouteNexts ==
    \A path_indices \in PathIndices : \A b \in batch_indices :
        LET out == shortest_path_action(State, path_indices)
        IN (Refreshed /\ path_indices[b] # DoneAction /\ ~is_done(State)[b]
            /\ ~has_current_route(State)[b] /\ out.result = "ok") =>
              CurrentStops(out.state, b)
                = reconstruct_all_paths(route_nexts[b]).seqs[path_indices[b][1]][path_indices[b][2]]

\* the stop sequences from i to j that visit no stop twice
SimplePaths(i, j) ==
    {p \in UNION {[1..n -> Nodes] : n \in 1..max_n_nodes} :
        /\ p[1] = i /\ p[Len(p)] = j
        /\ Cardinality({p[k] : k \in 1..Len(p)}) = Len(p)}
\* the direct rides of a path summed, plus the penalty of each transfer
PathTime(rmat, p) ==
    Plus(SumSeq([k \in 1..(Len(p) - 1) |-> rmat[p[k]][p[k + 1]]]),
         transfer_time_s * (IF Len(p) > 2 THEN Len(p) - 2 ELSE 0))
BestPathTime(rmat, i, j) == SetMin({PathTime(rmat, p) : p \in SimplePaths(i, j)})

\* C12: after every route-derivation refresh transit_times is the minimum,
\* over all paths of the route network, of the summed direct-ride times plus
\* transfer_time_s for every transfer
C12_TransitTimesAreMinimal ==
    Refreshed =>
        \A b \in batch_indices : \A i \in Nodes : \A j \in Nodes :
            transit_times[b][i][j] = BestPathTime(route_mat[b], i, j)

\* ------------------------------------------------------------------------
\* Float values of the cost computation: a finite rational, an infinity or NaN
\* ------------------------------------------------------------------------
\* <<"fin", n, d>> is n/d with d > 0, <<"inf", s, 1>> is s * infinity, s = 1 or -1
NaN == <<"nan", 0, 1>>
PosInf == <<"inf", 1, 1>>
XInf(s) == <<"inf", s, 1>>
Abs(n) == IF n < 0 THEN -n ELSE n
RECURSIVE GCD(_, _)
GCD(a, b) == IF b = 0 THEN a ELSE GCD(b, a % b)
\* n/d in lowest terms with a positive denominator
XRat(n, d) ==
    IF d < 0 THEN <<"fin", (-n) \div GCD(Abs(n), Abs(d)), (-d) \div GCD(Abs(n), Abs(d))>>
    ELSE <<"fin", n \div GCD(Abs(n), d), d \div GCD(Abs(n), d)>>
\* a time of the model as a float: Inf is float('inf')
XNum(v) == IF v >= Inf THEN PosInf ELSE <<"fin", v, 1>>
XSign(x) == IF x[2] > 0 THEN 1 ELSE IF x[2] < 0 THEN -1 ELSE 0
XIsNaN(x) == x[1] = "nan"
XIsFinite(x) == x[1] = "fin"
XIsZero(x) == x[1] = "fin" /\ x[2] = 0
\* x > 0 and x >= 0 as torch compares: false for NaN
XGtZero(x) == ~XIsNaN(x) /\ x[2] > 0
XGeZero(x) == ~XIsNaN(x) /\ x[2] >= 0
XAdd(a, b) ==
    IF XIsNaN(a) \/ XIsNaN(b) THEN NaN
    ELSE IF a[1] = "inf" /\ b[1] = "inf" THEN (IF a[2] = b[2] THEN a ELSE NaN)
    ELSE IF a[1] = "inf" THEN a
    ELSE IF b[1] = "inf" THEN b
    ELSE XRat(a[2] * b[3] + b[2] * a[3], a[3] * b[3])
XMul(a, b) ==
    IF XIsNaN(a) \/ XIsNaN(b) THEN NaN
    ELSE IF a[1] = "inf" \/ b[1] = "inf"
    THEN (IF XSign(a) * XSign(b) = 0 THEN NaN ELSE XInf(XSign(a) * XSign(b)))
    ELSE XRat(a[2] * b[2], a[3] * b[3])
XDiv(a, b) ==
    IF XIsNaN(a) \/ XIsNaN(b) THEN NaN
    ELSE IF b[1] = "inf" THEN (IF a[1] = "inf" THEN NaN ELSE <<"fin", 0, 1>>)
    ELSE IF XIsZero(b) THEN (IF XIsZero(a) THEN NaN ELSE XInf(XSign(a)))
    ELSE IF a[1] = "inf" THEN XInf(XSign(a) * XSign(b))
    ELSE XRat(a[2] * b[3], a[3] * b[2])
\* the epsilon 1e-6 that guards the divisions
Epsilon == XRat(1, 1000000)

\* ------------------------------------------------------------------------
\* CostModule._cost_helper, MyCostModule.forward, NikolicCostModule.forward
\* ------------------------------------------------------------------------
UNSAT_PENALTY_EXTRA_S == 3000
min_route_len == 2
constraint_violation_weight == 5
demand_time_weight == XRat(1, 2)
route_time_weight == XRat(1, 2)

\* all routes of a scenario: the finished ones, and the one being planned if
\* it has more than one stop
routes(S) ==
    Force([b \in batch_indices |->
        S.finished_routes[b] \o (IF NStops(S.current_routes[b]) > 1
                                 THEN <<Stops(S.current_routes[b])>> ELSE <<>>)])

\* the entries of a matrix in one sequence, for .sum(dim=(1, 2))
Flat(mat) ==
    [k \in 1..(max_n_nodes * max_n_nodes) |->
        mat[(k - 1) \div max_n_nodes][(k - 1) % max_n_nodes]]
Count(mask) == Cardinality({ij \in Nodes \X Nodes : mask[ij[1]][ij[2]]})

\* stops missing to min_route_len, placeholder rows not counted
route_len_delta(route) ==
    IF Len(route) = 0 \/ min_route_len - Len(route) < 0 THEN 0
    ELSE min_route_len - Len(route)
n_unstarted_routes(S, b) == n_routes_left_to_plan(S)[b] - Bit(has_current_route(S)[b])
n_stops_oob(S, b) ==
    SumSeq([r \in 1..Len(routes(S)[b]) |-> route_len_delta(routes(S)[b][r])])
    + n_unstarted_routes(S, b) * min_route_len

\* trip_times[nopath] = 0
trip_times(S, b) ==
    [i \in Nodes |-> [j \in Nodes |->
        IF S.has_path[b][i][j] THEN S.transit_times[b][i][j] ELSE 0]]
total_demand_time(S, b) ==
    SumSeq(Flat([i \in Nodes |-> [j \in Nodes |-> demand[b][i][j] * trip_times(S, b)[i][j]]]))
unserved_demand(S, b) ==
    SumSeq(Flat([i \in Nodes |-> [j \in Nodes |->
        demand[b][i][j] * Bit(~S.has_path[b][i][j])]]))
total_demand(b) == SumSeq(Flat(demand[b]))

get_n_disconnected_demand_edges(S, b) ==
    IF symmetric_routes
    THEN XRat(Count([i \in Nodes |-> [j \in Nodes |->
                  ~S.has_path[b][i][j] /\ demand[b][i][j] > 0]]), 2)
    ELSE XNum(Count([i \in Nodes |-> [j \in Nodes |->
                  ~S.has_path[b][i][j] /\ demand[b][i][j] > 0]]))
n_demand_edges(b) ==
    IF symmetric_routes
    THEN (Count([i \in Nodes |-> [j \in Nodes |-> demand[b][i][j] > 0]]) + 1) \div 2
    ELSE Count([i \in Nodes |-> [j \in Nodes |-> demand[b][i][j] > 0]])

\* assert (n_stops_visited == route_lens).all(), "some routes have loops!"
HasLoops(S) ==
    \E b \in batch_indices : \E r \in 1..Len(routes(S)[b]) :
        Cardinality({routes(S)[b][r][p] : p \in 1..Len(routes(S)[b][r])})
            # Len(routes(S)[b][r])

\* state.drive_times.flatten(1,2).max(1).values
time_normalizer(b) == XNum(SetMax({drive_times[b][i][j] : i \in Nodes, j \in Nodes}))

\* the demand totals the cost helper returns for a scenario's route network
\* under a demand matrix
CostHelperOutput(demand_matrix, S, b) ==
    [total_demand_time |-> SumSeq(Flat([i \in Nodes |-> [j \in Nodes |->
                               demand_matrix[i][j] * trip_times(S, b)[i][j]]])),
     unserved_demand |-> SumSeq(Flat([i \in Nodes |-> [j \in Nodes |->
                               demand_matrix[i][j] * Bit(~S.has_path[b][i][j])]])),
     total_demand |-> SumSeq(Flat(demand_matrix))]
\* total_demand_time / (total_demand + 1e-6)
cho_mean_demand_time(cho) ==
    XDiv(XNum(cho.total_demand_time), XAdd(XNum(cho.total_demand), Epsilon))
mean_demand_time(S, b) == cho_mean_demand_time(CostHelperOutput(demand[b], S, b))
unserved_penalty(S, b) ==
    XDiv(XMul(XMul(XNum(unserved_demand(S, b)), time_normalizer(b)), XNum(2)),
         XNum(total_demand(b)))
demand_cost(S, b) ==
    XDiv(XAdd(mean_demand_time(S, b), unserved_penalty(S, b)), time_normalizer(b))
route_cost(S, b) ==
    XDiv(XNum(total_route_time(S)[b]),
         XAdd(XMul(time_normalizer(b), XNum(n_routes_to_plan[b])), Epsilon))
frac_uncovered(S, b) ==
    XDiv(get_n_disconnected_demand_edges(S, b), XNum(n_demand_edges(b)))
\* denom[denom == 0] = 1
OobDenom(b) ==
    IF n_routes_to_plan[b] * min_route_len = 0 THEN 1
    ELSE n_routes_to_plan[b] * min_route_len
frac_stops_oob(S, b) == XDiv(XNum(n_stops_oob(S, b)), XNum(OobDenom(b)))
\* x + 0.1 * (x > 0)
WithStep(x) == XAdd(x, IF XGtZero(x) THEN XRat(1, 10) ELSE XNum(0))
const_viol_cost(S, b) ==
    XAdd(WithStep(frac_uncovered(S, b)), WithStep(frac_stops_oob(S, b)))
\* the cost MyCostModule.forward computes for one scenario
MyCost(S, b) ==
    XAdd(XAdd(XMul(demand_cost(S, b), demand_time_weight),
              XMul(route_cost(S, b), route_time_weight)),
         XMul(const_viol_cost(S, b), XNum(constraint_violation_weight)))
\* how MyCostModule.forward ends: "ok" or the assertion that fires
MyCostModule_forward(S) ==
    IF HasLoops(S) THEN "some routes have loops!"
    ELSE IF \E b \in batch_indices : ~XIsFinite(MyCost(S, b))
    THEN "invalid cost was computed!"
    ELSE IF \E b \in batch_indices : ~XGeZero(MyCost(S, b)) THEN "cost is negative!"
    ELSE "ok"

tot_sat_demand(S, b) == total_demand(b) - unserved_demand(S, b)
\* the mean time of satisfied trips, or of all trip times if none is
\* satisfied, plus the fixed extra time
w_2(S, b) ==
    XAdd(IF tot_sat_demand(S, b) = 0
         THEN XRat(SumSeq(Flat(trip_times(S, b))), max_n_nodes * max_n_nodes)
         ELSE XDiv(XNum(total_demand_time(S, b)), XNum(tot_sat_demand(S, b))),
         XNum(UNSAT_PENALTY_EXTRA_S))
\* the cost NikolicCostModule.forward computes for one scenario
NikolicCost(S, b) ==
    XAdd(XNum(total_demand_time(S, b)), XMul(w_2(S, b), XNum(unserved_demand(S, b))))
\* how NikolicCostModule.forward ends: "ok" or the assertion that fires
NikolicCostModule_forward(S) ==
    IF HasLoops(S) THEN "some routes have loops!"
    ELSE IF \E b \in batch_indices : XIsZero(NikolicCost(S, b)) /\ total_demand(b) > 0
    THEN "AssertionError"
    ELSE IF \E b \in batch_indices : ~XIsFinite(NikolicCost(S, b))
    THEN "invalid cost was computed!"
    ELSE "ok"

\* C13: in the 3-node scenario with d(0,1)=5, d(1,2)=5, d(0,2)=inf, demand
\* dem(0,2)=1 and one required route, building route [0,1,2] gives
\* route_mat(0,2)=10, n_transfers(0,2)=1, has_path(0,2), no unserved demand
\* and a finite positive cost
C13_ConcreteScenario ==
    (n_routes_to_plan[0] = 1 /\ Refreshed /\ routes(State)[0] = << <<0, 1, 2>> >>) =>
        /\ route_mat[0][0][2] = 10
        /\ n_transfers[0][0][2] = 1
        /\ has_path[0][0][2]
        /\ unserved_demand(State, 0) = 0
        /\ XIsFinite(MyCost(State, 0)) /\ XGtZero(MyCost(State, 0))
        /\ XIsFinite(NikolicCost(State, 0)) /\ XGtZero(NikolicCost(State, 0))

\* C14: in every reachable state MyCostModule.forward and
\* NikolicCostModule.forward each return a finite, non-negative cost for
\* every scenario, and no cost assertion fires
C14_CostsFiniteNonNegative ==
    /\ MyCostModule_forward(State) = "ok"
    /\ NikolicCostModule_forward(State) = "ok"
    /\ \A b \in batch_indices :
        /\ XIsFinite(MyCost(State, b)) /\ XGeZero(MyCost(State, b))
        /\ XIsFinite(NikolicCost(State, b)) /\ XGeZero(NikolicCost(State, b))

\* ------------------------------------------------------------------------
\* check_for_duplicate_routes
\* ------------------------------------------------------------------------
\* routes_tensor[b][i] is the padded route i of scenario b. The comparison of
\* routes_tensor[:, None] with its transpose holds, at (b, i, j), whether rows
\* j and i agree at each position; i and j range over all rows, i = j included
check_for_duplicate_routes(routes_tensor) ==
    [b \in DOMAIN routes_tensor |->
        \E i \in 1..Len(routes_tensor[b]) : \E j \in 1..Len(routes_tensor[b]) :
            \A l \in 1..Len(routes_tensor[b][i]) :
                routes_tensor[b][j][l] = routes_tensor[b][i][l]]

\* the routes of the state as one padded tensor
RoutesTensor(S) ==
    [b \in batch_indices |->
        [r \in 1..Len(routes(S)[b]) |-> Pad(routes(S)[b][r], max_n_nodes)]]
\* two rows at different positions are stop-for-stop identical
TwoIdenticalRoutes(rows) == \E i \in 1..Len(rows) : \E j \in 1..Len(rows) : i # j /\ rows[i] = rows[j]

\* C15: check_for_duplicate_routes reports a scenario exactly when two of its
\* routes at different positions are stop-for-stop identical: true for
\* [0,1,2] and [0,1,2], false for [0,1,2] and [2,1,0]
C15_DuplicateCheck ==
    /\ check_for_duplicate_routes(<< << <<0, 1, 2>>, <<0, 1, 2>> >>,
                                     << <<0, 1, 2>>, <<2, 1, 0>> >> >>) = <<TRUE, FALSE>>
    /\ \A b \in batch_indices :
          check_for_duplicate_routes(RoutesTensor(State))[b]
              <=> TwoIdenticalRoutes(RoutesTensor(State)[b])

\* ------------------------------------------------------------------------
\* batch_to_list, batch_from_list
\* ------------------------------------------------------------------------
\* Batch.to_data_list(): the per-scenario items of a batched attribute, in
\* batch order
to_data_list(attr) == [k \in 1..Cardinality(DOMAIN attr) |-> attr[k - 1]]
\* Batch.from_data_list(items): the items stacked along a new batch dimension
from_data_list(items) == Force([b \in 0..(Len(items) - 1) |-> items[b + 1]])
\* sum(lists, [])
RECURSIVE SumLists(_)
SumLists(lists) == IF lists = <<>> THEN <<>> ELSE Head(lists) \o SumLists(Tail(lists))

\* one state per scenario; a state of batch size 1 is returned itself
batch_to_list(S) ==
    IF Cardinality(DOMAIN S.current_routes) = 1 THEN <<S>>
    ELSE [k \in 1..Cardinality(DOMAIN S.current_routes) |->
            [f \in DOMAIN S |-> from_data_list(<<to_data_list(S[f])[k]>>)]]

\* a merge that takes the states of the list in reverse order
batch_from_reversed_list(state_list) ==
    IF Len(state_list) = 1 THEN state_list[1]
    ELSE [f \in DOMAIN state_list[1] |->
            from_data_list(SumLists([k \in 1..Len(state_list) |->
                to_data_list(state_list[Len(state_list) + 1 - k][f])]))]
\* the scenarios of all states of the list in one state; a list of one
\* state gives that state itself
batch_from_list(state_list) ==
    IF Len(state_list) = 1 THEN state_list[1]
    ELSE [f \in DOMAIN state_list[1] |->
            from_data_list(SumLists([k \in 1..Len(state_list) |->
                to_data_list(state_list[k][f])]))]

shallow_copy(S) == [state |-> S, same |-> TRUE, shared |-> batch_indices]
\* copy.deepcopy(self)
clone(S) == [state |-> S, same |-> FALSE, shared |-> {}]

\* graph_data and extra_data are selected into new batches; the new outer
\* list of finished routes holds the input's inner lists themselves
index_select(S, idx) ==
    [state |-> [f \in DOMAIN S |->
                   from_data_list([k \in 1..Len(idx.indices) |-> S[f][idx.indices[k]]])],
     same |-> FALSE,
     shared |-> {idx.indices[k] : k \in 1..Len(idx.indices)}]

\* if len(state_list) == 1: return state_list[0]; otherwise the finished
\* routes are copied list by list
merged_from_list(state_list) ==
    [state |-> batch_from_list(state_list), same |-> Len(state_list) = 1, shared |-> {}]

\* the scenarios whose entry of _finished_routes a call replaces by a new
\* list (the other calls append to the list that is there)
Cleared(name, S) ==
    IF name \in {"clear_routes", "replace_routes"} THEN batch_indices
    ELSE IF name = "reset_dones" THEN DoneIndex(S)
    ELSE {}
\* the fields of the object a call was not made on, after a call that left
\* the called object's fields as Called: a list held by both shows the
\* called object's routes
Seen(Uncalled, Called, held) ==
    [Uncalled EXCEPT !.finished_routes =
        Force([b \in batch_indices |->
            IF b \in held THEN Called.finished_routes[b]
            ELSE Uncalled.finished_routes[b]])]

Objects == {"self", "other"}
Target(t) == IF t = "self" THEN State ELSE other

\* a second state is taken from the state
TakeCopy(name, out) ==
    /\ link = "none"
    /\ link' = name
    /\ other' = out.state
    /\ same' = out.same
    /\ shared' = out.shared
    /\ UNCHANGED <<config_vars, state_vars, op, result, n_calls, target>>

\* a call on one of the two objects
CallOn(t, name, out) ==
    /\ n_calls < MaxCalls
    /\ n_calls' = n_calls + 1
    /\ t = "other" => link # "none"
    /\ target' = t
    /\ UNCHANGED <<link, same>>
    /\ shared' = IF same THEN shared ELSE shared \ Cleared(name, Target(t))
    /\ IF t = "self"
       THEN /\ Store(name, out.result, out.state)
            /\ other' = IF link = "none" THEN other
                        ELSE IF same THEN out.state
                        ELSE Seen(other, out.state, shared \ Cleared(name, State))
       ELSE /\ other' = out.state
            /\ Store(name, out.result,
                     IF same THEN out.state
                     ELSE Seen(State, out.state, shared \ Cleared(name, other)))

Ok(S) == [result |-> "ok", state |-> S]

SelectIndices == {[kind |-> "slice", indices |-> <<0, 1>>],
                  [kind |-> "list", indices |-> <<0, 1>>]}
\* the actions and routes of the calls made while there are two objects
CopyPathIndices == {pi \in PathIndices : pi[0] \in {DoneAction, <<0, 1>>} /\ pi[1] \in {DoneAction, <<0, 1>>}}
CopyCalls == {call \in NewRoutesCalls : ~call.only_routes_with_demand_are_valid}
\* one construction: two routes planned for the second scenario, the default mask
CopyInit == Init /\ n_routes_to_plan[1] = 2 /\ base_valid_terms_mat[0] = DefaultValidTerms

Clone == TakeCopy("clone", clone(State))
IndexSelect(idx) == TakeCopy("index_select", index_select(State, idx))
BatchFromList(state_list) == TakeCopy("batch_from_list", merged_from_list(state_list))

TwoShortestPathAction(t, path_indices) ==
    CallOn(t, "shortest_path_action", shortest_path_action(Target(t), path_indices))
TwoAddNewRoutes(t, call) ==
    CallOn(t, "add_new_routes",
           Ok(add_new_routes(Target(t), call.routes, call.only_routes_with_demand_are_valid,
                             call.invalid_directly_connected)))
TwoReplaceRoutes(t, call) ==
    CallOn(t, "replace_routes",
           Ok(replace_routes(Target(t), call.routes, call.only_routes_with_demand_are_valid,
                             call.invalid_directly_connected)))
TwoClearRoutes(t) == CallOn(t, "clear_routes", Ok(clear_routes(Target(t))))
TwoResetDones(t) == CallOn(t, "reset_dones", Ok(reset_dones(Target(t))))

CopyNext ==
    \/ Clone
    \/ \E idx \in SelectIndices : IndexSelect(idx)
    \/ \E state_list \in {<<State>>, batch_to_list(State)} : BatchFromList(state_list)
    \/ \E t \in Objects : \E path_indices \in CopyPathIndices : TwoShortestPathAction(t, path_indices)
    \/ \E t \in Objects : \E call \in CopyCalls : TwoAddNewRoutes(t, call)
    \/ \E t \in Objects : \E call \in CopyCalls : TwoReplaceRoutes(t, call)
    \/ \E t \in Objects : TwoClearRoutes(t)
    \/ \E t \in Objects : TwoResetDones(t)
CopySpec == CopyInit /\ [][CopyNext]_vars

\* C17: after clone(), a call on the clone leaves every field of the
\* original unchanged, and a call on the original leaves every field of the
\* clone unchanged
C17_CloneIndependent ==
    [][(link = "clone" /\ link' = "clone") =>
          /\ target' = "other" => State' = State
          /\ target' = "self" => other' = other]_vars
\* a clone was taken of a state with routes, and a call on the clone has
\* given it other routes than the original's
C17_Witness ==
    /\ link = "clone" /\ target = "other" /\ result = "ok"
    /\ finished_routes[0] # <<>>
    /\ other.finished_routes # finished_routes
    /\ other.route_mat # route_mat

\* the finished routes and the route-derived matrices of a state
RoutesAndMatrices(S) ==
    <<S.finished_routes, S.route_mat, S.directly_connected, S.valid_terms_mat,
      S.transit_times, S.route_nexts, S.n_transfers, S.has_path>>

\* C18: a state returned by index_select, batch_to_list or batch_from_list
\* shares no mutable state with its input: shortest_path_action,
\* add_new_routes or clear_routes on the output never changes the input's
\* finished routes or derived matrices, and calls on the input never change
\* the output
C18_NoSharing ==
    [][(link \in {"index_select", "batch_from_list"} /\ link' = link
        /\ op' \in {"shortest_path_action", "add_new_routes", "clear_routes"}) =>
          /\ target' = "other" => RoutesAndMatrices(State') = RoutesAndMatrices(State)
          /\ target' = "self" => RoutesAndMatrices(other') = RoutesAndMatrices(other)]_vars

\* the fields of a freshly constructed state
Constructed ==
    [finished_routes |-> Force([b \in batch_indices |-> <<>>]),
     current_routes |-> Force([b \in batch_indices |-> EmptyRoute]),
     extra_total_route_time |-> Force([b \in batch_indices |-> 0]),
     current_route_time |-> Force([b \in batch_indices |-> 0]),
     route_mat |-> Force([b \in batch_indices |-> InitTransitTimes]),
     directly_connected |-> Force([b \in batch_indices |-> Eye]),
     valid_terms_mat |-> base_valid_terms_mat,
     transit_times |-> Force([b \in batch_indices |-> InitTransitTimes]),
     route_nexts |-> Force([b \in batch_indices |-> Zeros]),
     n_transfers |-> Force([b \in batch_indices |-> Zeros]),
     has_path |-> Force([b \in batch_indices |-> Eye])]

\* C19: after replace_routes(R) the state equals a freshly constructed state
\* after add_new_routes(R), whatever was done before, and replace_routes(R)
\* a second time gives the same state
C19_ReplaceDependsOnlyOnRoutes ==
    [][op' = "replace_routes" =>
          \E call \in NewRoutesCalls :
              /\ State' = add_new_routes(Constructed, call.routes,
                                         call.only_routes_with_demand_are_valid,
                                         call.invalid_directly_connected)
              /\ State' = replace_routes(State', call.routes,
                                         call.only_routes_with_demand_are_valid,
                                         call.invalid_directly_connected)]_vars
\* replace_routes was called on a state that earlier calls had changed, and
\* the state has the routes of the call
C19_Witness ==
    /\ op = "replace_routes" /\ n_calls > 1
    /\ finished_routes[1] = << <<2, 1, 0>>, <<0, 2>> >>
    /\ ~has_current_route(State)[0] /\ ~has_current_route(State)[1]

\* planning is complete: the finished routes are at least as many as planned
Complete(S) == [b \in batch_indices |-> n_finished_routes(S)[b] >= n_routes_to_plan[b]]

\* C20: reset_dones clears exactly the scenarios whose planning is complete
\* (no finished routes, no route in progress, initial derived matrices) and
\* leaves the finished routes, in-progress route, total route time,
\* valid_terms_mat and route-derived matrices of every other scenario
\* unchanged
C20_ResetDonesFrame ==
    [][op' = "reset_dones" =>
          \A b \in batch_indices :
              IF Complete(State)[b]
              THEN PlannedFields(State', b) = PlannedFields(Constructed, b)
              ELSE PlannedFields(State', b) = PlannedFields(State, b)]_vars

\* the supplied routes that have at least 2 stops, in the supplied order
RECURSIVE RoutesOfTwoStops(_)
RoutesOfTwoStops(new_routes) == IF new_routes = <<>> THEN <<>> ELSE (IF Len(Stops(Head(new_routes))) >= 2 THEN <<Stops(Head(new_routes))>> ELSE <<>>) \o RoutesOfTwoStops(Tail(new_routes))

\* C21: add_new_routes does not raise; it skips every supplied route with
\* fewer than 2 stops and appends every other supplied route, in the
\* supplied order, to its scenario's finished routes
C21_ShortRoutesSkipped ==
    [][op' = "add_new_routes" =>
          /\ result' = "ok"
          /\ \E call \in NewRoutesCalls : \A b \in batch_indices :
                finished_routes'[b] = finished_routes[b] \o RoutesOfTwoStops(call.routes[b])]_vars
\* routes of one stop and of no stop were supplied with routes of two stops
\* to a state that had routes, and only the latter were appended
C21_Witness ==
    /\ op = "add_new_routes" /\ n_calls = 2
    /\ Len(finished_routes[0]) = 2 /\ finished_routes[0][2] = <<2, 1>>
    /\ Len(finished_routes[1]) = 3 /\ finished_routes[1][3] = <<2, 0>>

\* ------------------------------------------------------------------------
\* __init__: the per-scenario arguments
\* ------------------------------------------------------------------------
\* valid_terms_mat_arg holds one mask per entry and n_routes_arg one count per
\* entry. The loop over the scenarios reads valid_terms_mat[ii] and
\* n_routes_to_plan[ii] for ii < batch_size; an n_routes_to_plan of one entry
\* is expanded to the batch. Nothing compares the numbers of entries with
\* the batch size.
__init__(valid_terms_mat_arg, n_routes_arg) ==
    IF Len(valid_terms_mat_arg) < batch_size
       \/ (Len(n_routes_arg) # 1 /\ Len(n_routes_arg) < batch_size)
    THEN [result |-> "IndexError", base_valid_terms_mat |-> <<>>, n_routes_to_plan |-> <<>>]
    ELSE [result |-> "ok",
          base_valid_terms_mat |-> Force([b \in batch_indices |-> valid_terms_mat_arg[b + 1]]),
          n_routes_to_plan |-> Force([b \in batch_indices |->
              IF Len(n_routes_arg) = 1 THEN n_routes_arg[1] ELSE n_routes_arg[b + 1]])]

\* arguments of one entry fewer, as many, and one entry more than scenarios:
\* the mask the state was built with, and counts of routes
ArgLens == (batch_size - 1)..(batch_size + 1)
MaskArgs == {[k \in 1..n |-> base_valid_terms_mat[0]] : n \in ArgLens}
PlanArgs == {[k \in 1..n |-> k] : n \in ArgLens}

ScenarioOutcome(out, b) == <<out.result, [f \in DOMAIN out.state |-> out.state[f][b]]>>

\* C23: the outcome of shortest_path_action for a scenario depends only on
\* that scenario's state and action: two calls that agree on them leave the
\* same state for it, and succeed or fail alike, whatever the actions of
\* the other scenarios
C23_ScenariosIndependent ==
    \A b \in batch_indices : \A path_indices \in PathIndices : \A other_indices \in PathIndices :
        path_indices[b] = other_indices[b] =>
            ScenarioOutcome(shortest_path_action(State, path_indices), b)
                = ScenarioOutcome(shortest_path_action(State, other_indices), b)

\* C24: for a scenario with zero total demand both cost modules complete:
\* the cost each computes for it is a finite number, so that neither
\* "invalid cost was computed!" assertion fires on its account
C24_ZeroDemandCosts ==
    \A b \in batch_indices :
        total_demand(b) = 0 =>
            /\ n_demand_edges(b) = 0
            /\ XIsFinite(MyCost(State, b))
            /\ XIsFinite(NikolicCost(State, b))

\* new_route_lens = first_part_lens + scnd_part_lens, for one scenario
new_route_lens(cur, new_part, m) ==
    CountStops(first_parts(cur, new_part, m)) + CountStops(second_parts(cur, new_part, m))
\* a valid action whose concatenation is longer than a row of current_routes
ExceedsCapacity(S, path_indices) ==
    /\ \A b \in batch_indices : ActionParts(S.current_routes[b], path_indices[b]).valid
    /\ \E b \in batch_indices :
          new_route_lens(S.current_routes[b], new_parts(path_indices)[b],
                         ActionParts(S.current_routes[b], path_indices[b])) > max_n_nodes

\* C25: a concatenation with more stops than the capacity of a route makes
\* shortest_path_action fail with an assertion, and no route longer than
\* the capacity is stored
C25_OverCapacityAsserts ==
    /\ \A b \in batch_indices : Len(current_routes[b]) <= max_n_nodes
    /\ \A path_indices \in PathIndices :
          ExceedsCapacity(State, path_indices) =>
              /\ shortest_path_action(State, path_indices).result = "AssertionError"
              /\ shortest_path_action(State, path_indices).state = State

\* ends_at_cur_start and starts_at_cur_end of a pair against a started route
EndsAtCurStart(cur, path_index) == path_index[2] = cur[1]
StartsAtCurEnd(cur, path_index) == path_index[1] = cur[NStops(cur)]

\* C26: a pair (u, v) that shortest_path_action accepts for a scenario with
\* a route in progress matches exactly one end of that route: v is its
\* first stop or u is its last stop, and never both
C26_ExactlyOneEndMatches ==
    \A path_indices \in PathIndices : \A b \in batch_indices :
        (/\ NStops(current_routes[b]) > 0
         /\ path_indices[b] # DoneAction
         /\ shortest_path_action(State, path_indices).result = "ok")
            => (EndsAtCurStart(current_routes[b], path_indices[b])
                   # StartsAtCurEnd(current_routes[b], path_indices[b]))

\* the ride time of a stop sequence over a route matrix: the sum of its legs
RECURSIVE RideTime(_, _)
RideTime(rmat, path) ==
    IF Len(path) < 2 THEN 0
    ELSE Plus(rmat[path[1]][path[2]], RideTime(rmat, Tail(path)))
\* the shortest path the state stores for a pair, read off route_nexts
StoredPath(b, i, j) == PathFrom(route_nexts[b], i, j, max_n_nodes)

\* C27: in every state transit_times is 0 on the diagonal, n_transfers is 0
\* for a pair without a path, and for a pair with a path n_transfers is the
\* number of stops of the stored shortest path less two, at least 0, and
\* transit_times is the ride time of that path plus transfer_time_s for
\* every transfer
C27_TransfersAndTransitTimes ==
    \A b \in batch_indices : \A i \in Nodes : \A j \in Nodes :
        /\ transit_times[b][i][i] = 0
        /\ ~has_path[b][i][j] => n_transfers[b][i][j] = 0
        /\ has_path[b][i][j] =>
              /\ n_transfers[b][i][j] = SetMax({Len(StoredPath(b, i, j)) - 2, 0})
              /\ transit_times[b][i][j]
                    = RideTime(route_mat[b], StoredPath(b, i, j))
                      + n_transfers[b][i][j] * transfer_time_s
\* a refresh has left a pair joined through one transfer, a pair joined
\* directly and a pair with no path
C27_Witness ==
    /\ Refreshed
    /\ \E b \in batch_indices :
          /\ \E i \in Nodes : \E j \in Nodes :
                has_path[b][i][j] /\ n_transfers[b][i][j] = 1
                /\ transit_times[b][i][j] > transfer_time_s
          /\ \E i \in Nodes : \E j \in Nodes :
                i # j /\ has_path[b][i][j] /\ n_transfers[b][i][j] = 0
          /\ \E i \in Nodes : \E j \in Nodes : ~has_path[b][i][j]

\* the running time of the routes a scenario has: the finished ones and the
\* one in progress, computed from the stops
BuiltRoutesTime(S) ==
    Force([b \in batch_indices |->
        Plus(get_total_route_time(S.finished_routes)[b],
             get_total_route_time(Force([c \in batch_indices |-> <<S.current_routes[c]>>]))[b])])
\* a call of shortest_path_action has moved the route in progress of the
\* scenario to its finished routes
FinishedARoute(b) ==
    /\ op' = "shortest_path_action" /\ result' = "ok"
    /\ NStops(current_routes[b]) > 0
    /\ finished_routes'[b] = Append(finished_routes[b], Stops(current_routes[b]))

\* C28: in every state total_route_time of a scenario is the running time
\* of its finished routes plus that of its route in progress, return legs
\* included when the routes are symmetric; finishing a route with the done
\* sentinel leaves the scenario's total_route_time as it was
C28_TotalRouteTime ==
    /\ [](\A b \in batch_indices : total_route_time(State)[b] = BuiltRoutesTime(State)[b])
    /\ [][\A b \in batch_indices :
             FinishedARoute(b) => total_route_time(State')[b] = total_route_time(State)[b]]_vars
\* after a call of shortest_path_action a scenario has a finished route and
\* a route in progress, both taking time
C28_Witness ==
    \E b \in batch_indices :
        /\ Len(finished_routes[b]) > 0 /\ NStops(current_routes[b]) > 1
        /\ extra_total_route_time[b] > 0 /\ current_route_time[b] > 0
        /\ op = "shortest_path_action" /\ result = "ok"

\* the stops a route of the given length misses to min_route_len
StopsMissing(length) == IF length < min_route_len THEN min_route_len - length ELSE 0
\* the required routes of a scenario that are neither finished nor started
RoutesNotStarted(b) ==
    n_routes_to_plan[b] - Len(finished_routes[b]) - Bit(NStops(current_routes[b]) > 0)

\* C29: the out-of-bounds stop count of a scenario is the stops its finished
\* routes and its route in progress miss to min_route_len (no max_route_len
\* is set), plus min_route_len for every required route not yet started; a
\* route in progress with a single stop is counted as a built route
C29_StopsOutOfBounds ==
    \A b \in batch_indices :
        n_stops_oob(State, b)
            = SumSeq([r \in 1..Len(finished_routes[b]) |-> StopsMissing(Len(finished_routes[b][r]))])
              + (IF NStops(current_routes[b]) > 0 THEN StopsMissing(NStops(current_routes[b])) ELSE 0)
              + RoutesNotStarted(b) * min_route_len

\* trips wanted from stop 0 to each of the other two stops
TwoTripDemand == Mat(<< <<0, 1, 1>>, <<0, 0, 0>>, <<0, 0, 0>> >>)
\* the demand of the pairs that have a path
served_demand(cho) == cho.total_demand - cho.unserved_demand

\* C30: the travel-time term of the demand cost is the mean travel time per
\* served trip: the demand-weighted travel time over the pairs that have a
\* path, divided by the demand of those pairs (with the epsilon that guards
\* the division). The route network of a state does not depend on its
\* demand, so the term is taken for the scenario's demand and for a demand
\* of two trips
C30_MeanTimePerServedTrip ==
    \A b \in batch_indices : \A demand_matrix \in {demand[b], TwoTripDemand} :
        cho_mean_demand_time(CostHelperOutput(demand_matrix, State, b))
            = XDiv(XNum(CostHelperOutput(demand_matrix, State, b).total_demand_time),
                   XAdd(XNum(served_demand(CostHelperOutput(demand_matrix, State, b))), Epsilon))

\* node_covered_mask: the nodes with a direct connection into them and, unless
\* the routes are symmetric, one out of them
node_covered_mask(S) ==
    Force([b \in batch_indices |-> [n \in Nodes |->
        /\ \E i \in Nodes : S.directly_connected[b][i][n]
        /\ (symmetric_routes \/ \E j \in Nodes : S.directly_connected[b][n][j])]])
\* a finished route of the scenario, or its route in progress, visits the node
Visited(b, n) ==
    \/ \E r \in 1..Len(finished_routes[b]) : \E p \in 1..Len(finished_routes[b][r]) :
          finished_routes[b][r][p] = n
    \/ \E p \in 1..NStops(current_routes[b]) : current_routes[b][p] = n

\* C31: node_covered_mask of a scenario is true for a node exactly when one
\* of the scenario's routes, finished or in progress, visits the node; with
\* no routes it is false for every node
C31_NodeCoveredMask ==
    \A b \in batch_indices : \A n \in Nodes :
        node_covered_mask(State)[b][n] <=> Visited(b, n)

\* C32: under shortest_path_action calls alone, from a fresh state, the
\* number of finished routes of a scenario never decreases and never
\* exceeds n_routes_to_plan, a complete scenario stays complete, and a
\* complete scenario has no route in progress after any call
C32_PlanningProgress ==
    /\ [](\A b \in batch_indices :
             /\ n_finished_routes(State)[b] <= n_routes_to_plan[b]
             /\ is_done(State)[b] => ~has_current_route(State)[b])
    /\ [][\A b \in batch_indices :
             /\ n_finished_routes(State')[b] >= n_finished_routes(State)[b]
             /\ is_done(State)[b] => is_done(State')[b]]_vars
\* the second call has finished the only route planned for a scenario, which
\* is now complete with no route in progress
C32_Witness ==
    /\ op = "shortest_path_action" /\ result = "ok" /\ n_calls = 2
    /\ \E b \in batch_indices :
          /\ n_routes_to_plan[b] = 1 /\ n_finished_routes(State)[b] = 1
          /\ Len(finished_routes[b][1]) > 1
          /\ is_done(State)[b] /\ ~has_current_route(State)[b]

\* the route matrix computed in one step, from the matrix of a state without
\* routes and all the routes a scenario has, finished and in progress
FromScratch(S, b) ==
    MergeRouteMat(InitTransitTimes,
                  get_route_edge_matrix(routes(S)[b], drive_times[b], mean_stop_time,
                                        symmetric_routes))

====
